---------------------------- MODULE Spec2Model ----------------------------
(***************************************************************************)
(* A model of the external-data-fetch layer of DynoTrip's itinerary agent  *)
(* (backend/agents/itinerary_agent/utils/agent.py): the in-process         *)
(* SimpleCache, the get_cache / set_cache pair in front of redis_client,   *)
(* the shared aiohttp session, the four fetchers with their tenacity retry *)
(* decorators, place_details_async and batch_place_details.                *)
(*                                                                         *)
(* Python values: None is the string "None"; a dict is a function whose    *)
(* DOMAIN is its key set; a str that the code lower-cases, strips or       *)
(* compares is a sequence of one-character strings; an insertion-ordered   *)
(* dict whose key order matters is a sequence of <<key, value>> pairs.     *)
(***************************************************************************)
EXTENDS Integers, Sequences, FiniteSets, TLC

VARIABLES
  now,          \* time.time(), in seconds
  _cache,       \* SimpleCache._cache
  _expiry,      \* SimpleCache._expiry
  written,      \* history: per key, the last SimpleCache.set (at, ex, value)
  lastGet       \* history: the last SimpleCache.get (key, at, ret) and, in w,
                \* the set of that key it came after (<<>>: none)

VARIABLES
  env,          \* os.environ: which API keys are configured
  redis_client, \* the module global the cache helpers test: "unbound" (no
                \* binding of the name), "None", or "client"
  redis_store,  \* the keys held by the redis server: key -> [value, exp]
  session,      \* the module global session: None or the id of a client
  clients,      \* every aiohttp.ClientSession made: id -> [closed,
                \* limit_per_host, by, total, connect]
  tasks,        \* the running coroutines: one record per invocation
  track,        \* whether the tasks keep the history fields sawDone, sawFresh
  batch,        \* the invocation of batch_place_details: its locals
  calls,        \* history: the last direct call of a module-level helper
                \* (last) and, per cache key, the last set_cache (puts)
  limiter       \* one function decorated with rate_limited: the arguments of
                \* the decorator, its closure (calls_count, last_reset), the
                \* callers of the wrapper and, as history, when f was invoked

cacheVars == <<_cache, _expiry, written, lastGet>>
fetchVars == <<env, redis_client, redis_store, session, clients, tasks, track,
               batch, calls, limiter>>
vars == <<now, _cache, _expiry, written, lastGet,
          env, redis_client, redis_store, session, clients, tasks, track, batch,
          calls, limiter>>

None == "None"
\* the global session before any client exists (line 42), as a client id
NoSession == 0
\* limit_per_host=0: aiohttp's "no limit", the default of a ClientSession
NoLimit == 0

\* batch_place_details not called: pc "idle"; its locals as the call sets
\* them (queries, unique_queries, results, the loop variable i), whether
\* init_session and create_task went through, and the returned dict in ret;
\* as history, the value of the loop variable `batch` in each iteration
\* (chunks) and the number of asyncio.sleep(0.5) begun (pauses)
IdleBatch ==
  [pc |-> "idle", queries |-> <<>>, unique_queries |-> <<>>, results |-> <<>>,
   i |-> 0, initOk |-> TRUE, created |-> TRUE, ret |-> <<>>,
   chunks |-> <<>>, pauses |-> 0]

\* no function is decorated with rate_limited
NoLimiter ==
  [calls |-> 0, period |-> 0, calls_count |-> 0, last_reset |-> 0,
   callers |-> <<>>, invoked |-> <<>>]

\* no helper called yet.  last: op is the helper's name, key and value its
\* arguments, ret what it returned, raised the exception that left it (or
\* None), at the time of the call, w the set_cache of the key that a
\* get_cache came after (<<>>: none), client the client a session helper
\* returned or worked on, did the branch it took, arg and out an argument
\* and a result that are lists
NoCalls ==
  [last |-> [op |-> "none", key |-> <<>>, value |-> None, ret |-> None,
             raised |-> None, at |-> 0, w |-> <<>>, client |-> NoSession,
             did |-> None, arg |-> <<>>, out |-> <<>>],
   puts |-> <<>>]

(***************************************************************************)
(* Bounds of the SimpleCache exploration.                                  *)
(***************************************************************************)
MaxNowCache == 3
MaxEx == 2
CacheKeys == {"k1", "k2"}
CacheValues == {"v1", "v2"}
\* an Optional[int]: <<>> is None, <<n>> is the int n
NoneInt == <<>>
\* the ex arguments tried: no ttl, a ttl of 0 and a ttl of MaxEx seconds
ExArgs == {<<0>>, <<MaxEx>>, NoneInt}

(***************************************************************************)
(* dict helpers                                                            *)
(***************************************************************************)
DictSet(d, k, v) == [x \in (DOMAIN d) \cup {k} |-> IF x = k THEN v ELSE d[x]]
DictPop(d, k) == [x \in (DOMAIN d) \ {k} |-> d[x]]
DictGet(d, k) == IF k \in DOMAIN d THEN d[k] ELSE None
EmptyDict == [x \in {} |-> None]

(***************************************************************************)
(* class SimpleCache                                                       *)
(***************************************************************************)
\* get, line 51: the entry is expired when its expiry lies before time.time()
IsExpired(e, key, t) == key \in DOMAIN e /\ e[key] < t

\* get, lines 52-53 with the expiry entry left behind
EvictKeepExpiry(c, e, key) == [cache |-> DictPop(c, key), expiry |-> e]

\* get cut short between line 52 and line 53: only the value is dropped
EvictValueOnly(c, e, key) == [cache |-> [x \in (DOMAIN c) \ {key} |-> c[x]], expiry |-> e]

\* get, lines 52-53: both maps drop the key
Evict(c, e, key) == [cache |-> DictPop(c, key), expiry |-> DictPop(e, key)]

\* set, line 60 with the ttl forgotten
ExpiryAtNoTtl(t, ex) == t

\* set, line 60: time.time() + ex
ExpiryAt(t, ex) == t + ex

LastSet(key) == IF key \in DOMAIN written THEN <<written[key]>> ELSE <<>>

SimpleCacheGet(key) ==
  /\ IF IsExpired(_expiry, key, now)
       THEN /\ _cache' = Evict(_cache, _expiry, key).cache
            /\ _expiry' = Evict(_cache, _expiry, key).expiry
            /\ lastGet' = [key |-> key, at |-> now, ret |-> None,
                           expired |-> TRUE, w |-> LastSet(key)]
       ELSE /\ UNCHANGED <<_cache, _expiry>>
            /\ lastGet' = [key |-> key, at |-> now, ret |-> DictGet(_cache, key),
                           expired |-> FALSE, w |-> LastSet(key)]
  /\ UNCHANGED <<now, written>>
  /\ UNCHANGED fetchVars

SimpleCacheSet(key, value, ex) ==
  /\ _cache' = DictSet(_cache, key, value)
  /\ _expiry' = IF ex /= NoneInt THEN DictSet(_expiry, key, ExpiryAt(now, ex[1]))
                              ELSE _expiry
  /\ written' = DictSet(written, key, [at |-> now, ex |-> ex, value |-> value])
  /\ UNCHANGED <<now, lastGet>>
  /\ UNCHANGED fetchVars

\* the wall clock moves on by d seconds
Tick(d, max) ==
  /\ now + d <= max
  /\ now' = now + d

CacheTick ==
  /\ Tick(1, MaxNowCache)
  /\ UNCHANGED cacheVars
  /\ UNCHANGED fetchVars

NoGet == [key |-> None, at |-> 0, ret |-> None, expired |-> FALSE, w |-> <<>>]

CacheInit ==
  /\ _cache = EmptyDict
  /\ _expiry = EmptyDict
  /\ written = EmptyDict
  /\ lastGet = NoGet

\* the module globals right after import, with no coroutine running
FetchIdle ==
  /\ env = [maps |-> TRUE, weather |-> TRUE]
  /\ redis_client = "unbound"
  /\ redis_store = EmptyDict
  /\ session = NoSession
  /\ clients = <<>>
  /\ tasks = <<>>
  /\ track = FALSE
  /\ batch = IdleBatch
  /\ calls = NoCalls
  /\ limiter = NoLimiter

InitCache ==
  /\ now = 0
  /\ CacheInit
  /\ FetchIdle

NextCache ==
  \/ \E key \in CacheKeys : SimpleCacheGet(key)
  \/ \E key \in CacheKeys, value \in CacheValues, ex \in ExArgs :
       SimpleCacheSet(key, value, ex)
  \/ CacheTick

SpecCache == InitCache /\ [][NextCache]_vars

(***************************************************************************)
(* C9: an entry written by set(key, value, ex=T) is returned by every      *)
(* get(key) made less than T seconds after that write, and every get(key)  *)
(* made more than T seconds after it returns None (the write being the     *)
(* last set of the key).                                                   *)
(***************************************************************************)
C9_TtlWindow ==
  (lastGet.w /= <<>> /\ lastGet.w[1].ex /= NoneInt) =>
    LET set == lastGet.w[1]
        age == lastGet.at - set.at
    IN  /\ (age < set.ex[1] => lastGet.ret = set.value)
        /\ (age > set.ex[1] => lastGet.ret = None)

\* a get inside the window that returned the value, the clock having moved
C9_Witness ==
  /\ lastGet.w /= <<>>
  /\ lastGet.w[1].ex /= NoneInt
  /\ lastGet.at - lastGet.w[1].at > 0
  /\ lastGet.at - lastGet.w[1].at < lastGet.w[1].ex[1]
  /\ lastGet.ret = lastGet.w[1].value

(***************************************************************************)
(* C10: a get on a key whose expiry has passed returns None and leaves the *)
(* key in neither the value map nor the expiry map.                        *)
(***************************************************************************)
C10_ExpiredGetEvicts ==
  [][\A key \in CacheKeys :
       (SimpleCacheGet(key) /\ key \in DOMAIN _expiry /\ _expiry[key] < now)
         => /\ lastGet'.ret = None
            /\ key \notin DOMAIN _cache'
            /\ key \notin DOMAIN _expiry']_vars

C10_Witness ==
  /\ lastGet.expired
  /\ lastGet.w /= <<>>
  /\ lastGet.ret = None
  /\ lastGet.key \notin DOMAIN _cache
  /\ lastGet.key \notin DOMAIN _expiry

(***************************************************************************)
(* C11: after set(key, value, ex=None) the entry has no expiry: every get  *)
(* of the key made before the key is set again returns value, whatever     *)
(* sets of the key came before.                                            *)
(***************************************************************************)
C11_NoTtlNeverExpires ==
  (lastGet.w /= <<>> /\ lastGet.w[1].ex = NoneInt) =>
    lastGet.ret = lastGet.w[1].value

(***************************************************************************)
(* Strings: str.lower() and str.strip() on sequences of characters.        *)
(***************************************************************************)
LowerChar(c) == CASE c = "A" -> "a" [] c = "B" -> "b" [] OTHER -> c
Lower(str) == [i \in 1..Len(str) |-> LowerChar(str[i])]
IsSpace(c) == c = " "

RECURSIVE LStrip(_)
LStrip(str) ==
  IF str /= <<>> /\ IsSpace(Head(str)) THEN LStrip(Tail(str)) ELSE str

RECURSIVE RStrip(_)
RStrip(str) ==
  IF str /= <<>> /\ IsSpace(str[Len(str)])
    THEN RStrip(SubSeq(str, 1, Len(str) - 1))
    ELSE str

Strip(str) == RStrip(LStrip(str))

(***************************************************************************)
(* Program constants                                                       *)
(***************************************************************************)
CACHE_TTL == 3600
CONCURRENT_REQUESTS == 10
\* stop_after_attempt(3) of both retry decorators
STOP_AFTER_ATTEMPT == 3
\* wait_exponential(multiplier=1, min=4, max=10) of both retry decorators
WAIT_MULTIPLIER == 1
WAIT_MIN == 4
WAIT_MAX == 10

\* python truthiness of a cached or fetched value: None and {} are falsy
Empty == "Empty"
Truthy(v) == v /= None /\ v /= Empty

(***************************************************************************)
(* Cache keys (lines 203, 238, 264, 298).  A key is <<prefix, rest>>.      *)
(* The weather arguments are <<lat, lng, days>> with lat and lng in units  *)
(* of 0.00001 degree; "{lat:.4f}" keeps four decimals.                     *)
(***************************************************************************)
Round4(x) == (x + 5) \div 10

SearchKey(text_query) == <<"places:search:", Strip(Lower(text_query))>>
DetailsKey(place_id) == <<"places:details:", place_id>>
GeocodeKey(address) == <<"geocode:", Strip(Lower(address))>>
WeatherKey(a) == <<"weather:", <<Round4(a[1]), Round4(a[2]), a[3]>>>>

CacheKeyOf(kind, arg) ==
  CASE kind = "search"  -> SearchKey(arg)
    [] kind = "details" -> DetailsKey(arg)
    [] kind = "geocode" -> GeocodeKey(arg)
    [] kind = "weather" -> WeatherKey(arg)

\* the host a fetcher's request goes to (lines 66-68)
HostOf(kind) ==
  CASE kind = "search"  -> "places.googleapis.com"
    [] kind = "details" -> "places.googleapis.com"
    [] kind = "geocode" -> "maps.googleapis.com"
    [] kind = "weather" -> "weather.visualcrossing.com"

(***************************************************************************)
(* get_cache / set_cache (lines 165-192).  ok says whether the redis call  *)
(* went through; it is read only when redis_client is a client.            *)
(* Each returns [raised, ...]: raised is None or the exception's name.     *)
(***************************************************************************)
RedisLive(key) == key \in DOMAIN redis_store /\ now < redis_store[key].exp

GetCache(key, ok) ==
  CASE redis_client = "unbound" -> [raised |-> "NameError", value |-> None]
    [] redis_client = "None"    -> [raised |-> None, value |-> None]
    [] redis_client = "client"  ->
         IF ok /\ RedisLive(key)
           THEN [raised |-> None, value |-> redis_store[key].value]
           ELSE [raised |-> None, value |-> None]

SetCache(key, value, ttl, ok) ==
  IF value /= None /\ redis_client = "client" /\ ok
    THEN DictSet(redis_store, key, [value |-> value, exp |-> now + ttl])
    ELSE redis_store

\* set_cache reads redis_client too (line 184), past the value check
SetCacheRaises(value) == value /= None /\ redis_client = "unbound"

(***************************************************************************)
(* The shared client (lines 42, 130-149, 560-571).  clients is the list of *)
(* every ClientSession constructed, a client's id its index; session is    *)
(* NoSession or an id.  limit_per_host 0 is aiohttp's "no limit".          *)
(***************************************************************************)
SessionUsable == session /= NoSession /\ ~clients[session].closed

\* an argument the code does not pass: the default of aiohttp applies
Unset == 0

\* a ClientSession as the function `by` makes it: get_session passes
\* ClientTimeout(total=30, connect=10) (line 133), init_session
\* ClientTimeout(total=30) (line 564), _fetch_weather_summary_async no
\* timeout at all (line 311)
NewClient(limit, by) ==
  [closed |-> FALSE, limit_per_host |-> limit, by |-> by,
   total |-> IF by = "weather" THEN Unset ELSE 30,
   connect |-> IF by = "get_session" THEN 10 ELSE Unset]

\* get_session that makes a client on every call
GetSessionAlwaysNew ==
  [session |-> Len(clients) + 1,
   clients |-> Append(clients, NewClient(CONCURRENT_REQUESTS, "get_session"))]

\* get_session: the client it returns and the list of clients afterwards
GetSession ==
  IF SessionUsable
    THEN [session |-> session, clients |-> clients]
    ELSE [session |-> Len(clients) + 1,
          clients |-> Append(clients, NewClient(CONCURRENT_REQUESTS, "get_session"))]

\* init_session
InitSession ==
  IF SessionUsable
    THEN [session |-> session, clients |-> clients]
    ELSE [session |-> Len(clients) + 1,
          clients |-> Append(clients, NewClient(NoLimit, "init_session"))]

(***************************************************************************)
(* Upstream payloads.  A token names a JSON body; the operators below give *)
(* the fields the code reads from it.                                      *)
(***************************************************************************)
SearchPayloads == {"noplaces", "P_id", "P_name", "P_bare"}
DetailsPayloads == {"D1", Empty}
GeocodePayloads == {"noresults", "noloc", "G1"}
WeatherPayloads == {"nodays", Empty, "W1"}

Payloads ==
  SearchPayloads \cup DetailsPayloads \cup GeocodePayloads \cup WeatherPayloads
    \cup {None}

PayloadsOf(kind) ==
  CASE kind = "search"  -> SearchPayloads
    [] kind = "details" -> DetailsPayloads
    [] kind = "geocode" -> GeocodePayloads
    [] kind = "weather" -> WeatherPayloads

\* found.get('id') and found.get('name', ''), as character sequences
FoundId(found) == IF found = "P_id" THEN <<"X", "1">> ELSE <<>>
FoundName(found) ==
  CASE found = "P_id"   -> <<"p", "l", "a", "c", "e", "s", "/", "X", "1">>
    [] found = "P_name" -> <<"p", "l", "a", "c", "e", "s", "/", "Y", "2">>
    [] OTHER            -> <<"Z">>

PlacesPrefix == <<"p", "l", "a", "c", "e", "s", "/">>
StartsWith(str, pre) == Len(str) >= Len(pre) /\ SubSeq(str, 1, Len(pre)) = pre

\* name_field.split('/', 1)[1]: what follows the first "/"
AfterFirstSlash(str) ==
  LET i == CHOOSE j \in 1..Len(str) :
             str[j] = "/" /\ \A k \in 1..(j - 1) : str[k] /= "/"
  IN  SubSeq(str, i + 1, Len(str))

\* an extraction that reads the id field only
ExtractPlaceIdDirect(found) == FoundId(found)

\* place_details_async, lines 356-360
ExtractPlaceId(found) ==
  IF FoundId(found) /= <<>> THEN FoundId(found)
  ELSE IF StartsWith(FoundName(found), PlacesPrefix)
         THEN AfterFirstSlash(FoundName(found))
         ELSE <<>>

\* what a fetcher makes of a 200 response: the value it returns, and
\* whether it calls set_cache with it
FetchedValue(kind, payload) ==
  CASE kind = "search"  -> IF payload = "noplaces" THEN None ELSE payload
    [] kind = "details" -> payload
    [] kind = "geocode" -> IF payload = "G1" THEN payload ELSE None
    [] kind = "weather" -> IF payload = "nodays" THEN Empty ELSE payload


CachesFetched(kind, payload) ==
  CASE kind = "search"  -> Truthy(FetchedValue(kind, payload))
    [] kind = "details" -> TRUE
    [] kind = "geocode" -> payload = "G1"
    [] kind = "weather" -> payload /= "nodays"

\* negative caching: a marker is stored for an answer that found nothing
ToCacheWithMarker(kind, payload) ==
  IF FetchedValue(kind, payload) = None THEN "NOT_FOUND"
                                        ELSE FetchedValue(kind, payload)

\* the value handed to set_cache after a 200 (lines 223-224, 253, 284,
\* 327), None when set_cache is not called
ToCache(kind, payload) ==
  IF CachesFetched(kind, payload) THEN FetchedValue(kind, payload) ELSE None

(***************************************************************************)
(* Coroutines.  A task is one invocation of a fetcher (op = its kind) or   *)
(* of place_details_async (op = "place", kind = the fetcher it is in).     *)
(* Invocations are numbered in the order they start.                       *)
(*   pc: idle -> (send ->) http -> (wait -> (send ->) http ...) -> done    *)
(* send is a request waiting for a connection of its client's pool, http a *)
(* request on the wire, wait the retry decorator's sleep.  A step runs the *)
(* coroutine from one suspension to the next.  ret is [tag, val] with tag  *)
(* "return" or "raise".                                                    *)
(* History: nreq counts the requests the invocation sent, tries lists how  *)
(* each request of the current fetcher ended, waits how many seconds the   *)
(* retry decorator slept after each of them, onClosed whether the          *)
(* invocation called post or get on a closed client, sawDone holds the     *)
(* invocations that had returned before this one began, sawFresh those of  *)
(* them that had returned less than CACHE_TTL seconds before, doneAt is    *)
(* the time of the return.                                                 *)
(***************************************************************************)
IdleTask ==
  [op |-> "none", query |-> <<>>, kind |-> "none", arg |-> <<>>, pc |-> "idle",
   attempt |-> 0, client |-> NoSession, nreq |-> 0, tries |-> <<>>,
   waits |-> <<>>, onClosed |-> FALSE,
   ret |-> [tag |-> "none", val |-> None], found |-> None,
   sawDone |-> {}, sawFresh |-> {}, doneAt |-> 0]

TaskIds == DOMAIN tasks
Returned(v) == [tag |-> "return", val |-> v]
Raised(e) == [tag |-> "raise", val |-> e]

\* the next invocation is the first task not yet started
IsNext(t) == tasks[t].pc = "idle" /\ \A u \in TaskIds : u < t => tasks[u].pc /= "idle"

\* a task that begins now, with its history fields filled in
Begun(op, query) ==
  [IdleTask EXCEPT
     !.op = op, !.query = query,
     !.sawDone = {u \in TaskIds : track /\ tasks[u].pc = "done"},
     !.sawFresh = {u \in TaskIds : track /\ tasks[u].pc = "done"
                                    /\ now - tasks[u].doneAt < CACHE_TTL}]

Done(tk, ret) == [tk EXCEPT !.pc = "done", !.ret = ret, !.doneAt = now]

\* retry_if_exception_type((aiohttp.ClientError, asyncio.TimeoutError)):
\* ClientConnectionError and ClientResponseError derive from ClientError
RetriedTypes == {"ClientConnectionError", "ClientResponseError", "TimeoutError"}

\* only the two places fetchers carry the retry decorator (lines 195, 230)
IsRetried(kind, exc) == kind \in {"search", "details"} /\ exc \in RetriedTypes

RECURSIVE Pow2(_)
Pow2(n) == IF n = 0 THEN 1 ELSE 2 * Pow2(n - 1)

\* wait_exponential(multiplier=1, min=4, max=10) (lines 197, 232), after
\* attempt attempt_number has failed: tenacity computes
\* multiplier * 2 ** (attempt_number - 1) and clamps it to [min, max]
WaitExponential(attempt_number) ==
  LET result == WAIT_MULTIPLIER * Pow2(attempt_number - 1)
      capped == IF result < WAIT_MAX THEN result ELSE WAIT_MAX
  IN  IF capped > WAIT_MIN THEN capped ELSE WAIT_MIN

\* a decorator without a stop condition
MayRetryForever(attempt) == attempt >= 0

\* stop_after_attempt(3)
MayRetry(attempt) == attempt < STOP_AFTER_ATTEMPT

\* an exception leaves the fetcher: place_details_async turns it into an
\* error value (lines 432-434), any other caller sees it raised
ExitByRaise(tk, exc) ==
  IF tk.op = "place"
    THEN Done(tk, Returned("error: Failed to fetch place details"))
    ELSE Done(tk, Raised(exc))

\* an exception inside the try block around the request: the places
\* fetchers re-raise it into the retry decorator; geocode (lines 286-289)
\* and weather (lines 329-332) print it and fall through to their last line
RaiseInTry(tk, exc) ==
  CASE tk.kind = "geocode" -> Done(tk, Returned(None))
    [] tk.kind = "weather" -> Done(tk, Returned(Empty))
    [] OTHER ->
         IF IsRetried(tk.kind, exc) /\ MayRetry(tk.attempt)
           THEN [tk EXCEPT !.pc = "wait",
                           !.waits = Append(@, WaitExponential(tk.attempt))]
           ELSE ExitByRaise(tk, exc)

\* the requests client c has on the wire to host h
OnWire(c, h) ==
  {u \in TaskIds : tasks[u].pc = "http" /\ tasks[u].client = c
                   /\ HostOf(tasks[u].kind) = h}

\* TCPConnector(limit_per_host=...): a request waits while the client has
\* that many connections to its host
Admitted(cs, tk) ==
  \/ cs[tk.client].limit_per_host = NoLimit
  \/ Cardinality(OnWire(tk.client, HostOf(tk.kind))) < cs[tk.client].limit_per_host

\* session.post / session.get: aiohttp raises RuntimeError("Session is
\* closed") on a closed client; otherwise the request goes on the wire, or
\* waits for a connection
Request(tk, cs) ==
  IF cs[tk.client].closed
    THEN RaiseInTry([tk EXCEPT !.onClosed = TRUE], "RuntimeError")
  ELSE IF Admitted(cs, tk) THEN [tk EXCEPT !.pc = "http", !.nreq = @ + 1]
  ELSE [tk EXCEPT !.pc = "send"]

\* The top of a fetcher's body, up to its request: the argument checks,
\* get_cache, the return of a truthy cached value.  [exit, ret]: the
\* fetcher is left with ret, or (exit FALSE) goes on to its request.
BodyTop(tk, ok) ==
  LET got == GetCache(CacheKeyOf(tk.kind, tk.arg), ok)
  IN  IF tk.kind = "geocode" /\ tk.arg = <<>>
        THEN [exit |-> TRUE, ret |-> Returned(None)]
      ELSE IF tk.kind = "weather" /\ ~env.weather
        THEN [exit |-> TRUE, ret |-> Returned(Empty)]
      ELSE IF got.raised /= None
        THEN [exit |-> TRUE, ret |-> Raised(got.raised)]
      ELSE IF Truthy(got.value)
        THEN [exit |-> TRUE, ret |-> Returned(got.value)]
        ELSE [exit |-> FALSE, ret |-> Returned(None)]

\* place_details_async after _places_details_async returned (lines 367-430)
PlaceAfterDetails(tk, value) ==
  IF ~Truthy(value)
    THEN Done(tk, Returned("error: Could not fetch place details"))
    ELSE Done(tk, Returned("place"))

\* place_details_async after _places_search_async returned (lines 352-366):
\* the id is extracted and _places_details_async entered
PlaceAfterSearch(tk, cs, value, ok) ==
  IF ~Truthy(value)
    THEN Done(tk, Returned("error: Place not found"))
  ELSE IF ExtractPlaceId(value) = <<>>
    THEN Done([tk EXCEPT !.found = value],
              Returned("error: Could not extract place ID"))
  ELSE LET next == [tk EXCEPT !.kind = "details", !.found = value,
                              !.arg = ExtractPlaceId(value), !.attempt = 1,
                              !.tries = <<>>, !.waits = <<>>]
           top == BodyTop(next, ok)
       IN  IF ~top.exit THEN Request(next, cs)
           ELSE IF top.ret.tag = "raise" THEN ExitByRaise(next, top.ret.val)
           ELSE PlaceAfterDetails(next, top.ret.val)

\* a fetcher returns value to its caller
ExitByReturn(tk, cs, value, ok) ==
  IF tk.op /= "place" THEN Done(tk, Returned(value))
  ELSE IF tk.kind = "search" THEN PlaceAfterSearch(tk, cs, value, ok)
  ELSE PlaceAfterDetails(tk, value)

\* a fetcher is called (or called again by the decorator) and runs to its
\* first suspension; cs already holds the client weather opens for itself
Enter(tk, cs, ok) ==
  LET top == BodyTop(tk, ok)
  IN  IF ~top.exit THEN Request(tk, cs)
      ELSE IF top.ret.tag = "raise" THEN ExitByRaise(tk, top.ret.val)
      ELSE ExitByReturn(tk, cs, top.ret.val, ok)

UnchangedCache ==
  UNCHANGED <<_cache, _expiry, written, lastGet, track, calls, limiter>>
\* a step of a fetcher leaves the locals of batch_place_details alone
UnchangedBatch == UNCHANGED batch

(***************************************************************************)
(* Fetcher steps                                                           *)
(***************************************************************************)
\* A caller obtains the shared client as place_details_async does (line
\* 347) and calls one of the three fetchers that take a session.
StartFetch(t, kind, arg, ok) ==
  /\ IsNext(t)
  /\ kind \in {"search", "details", "geocode"}
  /\ session' = GetSession.session
  /\ clients' = GetSession.clients
  /\ tasks' = [tasks EXCEPT ![t] =
       Enter([Begun(kind, arg) EXCEPT !.kind = kind, !.arg = arg, !.attempt = 1,
                                      !.client = GetSession.session],
             GetSession.clients, ok)]
  /\ UNCHANGED <<now, env, redis_client, redis_store>>
  /\ UnchangedCache
  /\ UnchangedBatch

\* _fetch_weather_summary_async (lines 291-313) takes no session: past the
\* key check and the cache it opens a ClientSession of its own
StartWeather(t, arg, ok) ==
  /\ IsNext(t)
  /\ LET tk == [Begun("weather", arg) EXCEPT !.kind = "weather", !.arg = arg,
                                              !.attempt = 1]
         top == BodyTop(tk, ok)
         own == Append(clients, NewClient(NoLimit, "weather"))
     IN  IF top.exit
           THEN /\ tasks' = [tasks EXCEPT ![t] =
                     IF top.ret.tag = "raise" THEN ExitByRaise(tk, top.ret.val)
                                              ELSE Done(tk, top.ret)]
                /\ UNCHANGED clients
           ELSE /\ clients' = own
                /\ tasks' = [tasks EXCEPT ![t] =
                     Request([tk EXCEPT !.client = Len(own)], own)]
  /\ UNCHANGED <<now, env, redis_client, redis_store, session>>
  /\ UnchangedCache
  /\ UnchangedBatch

\* place_details_async obtaining the shared client before its checks
StartPlaceSessionFirst(t, query, ok) ==
  /\ IsNext(t)
  /\ session' = GetSession.session
  /\ clients' = GetSession.clients
  /\ LET base == Begun("place", query)
     IN  tasks' = [tasks EXCEPT ![t] =
           IF ~env.maps
             THEN Done(base, Returned("error: GOOGLE_MAPS_API_KEY not configured"))
           ELSE IF query = <<>>
             THEN Done(base, Returned("error: query cannot be empty"))
           ELSE Enter([base EXCEPT !.kind = "search", !.arg = query,
                                   !.attempt = 1, !.client = GetSession.session],
                      GetSession.clients, ok)]
  /\ UNCHANGED <<now, env, redis_client, redis_store>>
  /\ UnchangedCache
  /\ UnchangedBatch

\* place_details_async, lines 341-351: the key and query checks, then
\* get_session and the call of _places_search_async
StartPlace(t, query, ok) ==
  /\ IsNext(t)
  /\ LET base == Begun("place", query)
     IN  IF ~env.maps
           THEN /\ tasks' = [tasks EXCEPT ![t] =
                     Done(base, Returned("error: GOOGLE_MAPS_API_KEY not configured"))]
                /\ UNCHANGED <<session, clients>>
         ELSE IF query = <<>>
           THEN /\ tasks' = [tasks EXCEPT ![t] =
                     Done(base, Returned("error: query cannot be empty"))]
                /\ UNCHANGED <<session, clients>>
         ELSE /\ session' = GetSession.session
              /\ clients' = GetSession.clients
              /\ tasks' = [tasks EXCEPT ![t] =
                   Enter([base EXCEPT !.kind = "search", !.arg = query,
                                      !.attempt = 1,
                                      !.client = GetSession.session],
                         GetSession.clients, ok)]
  /\ UNCHANGED <<now, env, redis_client, redis_store>>
  /\ UnchangedCache
  /\ UnchangedBatch

\* a waiting request gets its connection (or finds its client closed)
Send(t) ==
  /\ tasks[t].pc = "send"
  /\ clients[tasks[t].client].closed \/ Admitted(clients, tasks[t])
  /\ tasks' = [tasks EXCEPT ![t] = Request(tasks[t], clients)]
  /\ UNCHANGED <<now, env, redis_client, redis_store, session, clients>>
  /\ UnchangedCache
  /\ UnchangedBatch

ExceptionOf(status) ==
  CASE status = "4xx"     -> "ClientResponseError"
    [] status = "conn"    -> "ClientConnectionError"
    [] status = "timeout" -> "TimeoutError"

\* the ttl a fetcher passes to set_cache (the default, CACHE_TTL; weather
\* passes 3600, line 327)
TtlOf(kind) == CACHE_TTL

\* the clients after the task left `async with aiohttp.ClientSession()`
CloseOwn(tk, cs) ==
  IF tk.kind = "weather" THEN [cs EXCEPT ![tk.client].closed = TRUE] ELSE cs

\* The request ends: a 200 with a JSON body, a 4xx (raise_for_status), a
\* connection error or a timeout.  The rest of the fetcher body runs:
\* set_cache and the return, or the exception handlers and the decorator.
\* Closing a client closes its connections: a request that was on the wire
\* then gets no response any more.
Respond(t, status, payload, ok) ==
  /\ tasks[t].pc = "http"
  /\ status \in {"ok", "4xx"} => ~clients[tasks[t].client].closed
  /\ LET tk == [tasks[t] EXCEPT !.tries = Append(@, status)]
         key == CacheKeyOf(tk.kind, tk.arg)
         value == FetchedValue(tk.kind, payload)
         cached == IF status = "ok" THEN ToCache(tk.kind, payload) ELSE None
     IN  /\ status = "ok" => payload \in PayloadsOf(tk.kind)
         /\ status /= "ok" => payload = None
         /\ redis_store' = SetCache(key, cached, TtlOf(tk.kind), ok)
         /\ tasks' = [tasks EXCEPT ![t] =
              IF status /= "ok" THEN RaiseInTry(tk, ExceptionOf(status))
              ELSE IF SetCacheRaises(cached) THEN RaiseInTry(tk, "NameError")
              ELSE ExitByReturn(tk, clients, value, ok)]
         /\ clients' = CloseOwn(tk, clients)
  /\ UNCHANGED <<now, env, redis_client, session>>
  /\ UnchangedCache
  /\ UnchangedBatch

\* the decorator's sleep is over: the wrapped function is called again
Retry(t, ok) ==
  /\ tasks[t].pc = "wait"
  /\ tasks' = [tasks EXCEPT ![t] =
       Enter([tasks[t] EXCEPT !.attempt = @ + 1], clients, ok)]
  /\ UNCHANGED <<now, env, redis_client, redis_store, session, clients>>
  /\ UnchangedCache
  /\ UnchangedBatch

\* the wall clock moves on to a later instant
FetchTick(instants) ==
  /\ \E later \in instants : later > now /\ now' = later
  /\ UNCHANGED fetchVars
  /\ UnchangedCache
  /\ UnchangedBatch

\* requests on the wire, over all clients and hosts
InFlight == Cardinality({u \in TaskIds : tasks[u].pc = "http"})

(***************************************************************************)
(* SpecFetch: NFetchCalls invocations of one of the four fetchers, in any  *)
(* interleaving, against an upstream that answers every request with a     *)
(* 200, with redis_client unbound (the module as it stands), None, or a    *)
(* client whose calls may fail.  The invocations of a behaviour are all of *)
(* the same fetcher: the fetchers share no cache key.                      *)
(***************************************************************************)
NFetchCalls == 2
\* the instants the clock is looked at: 0, and the seconds from
\* CACHE_TTL - 1 on, ExtraSeconds of them
ExtraSeconds == 1
FetchInstants == {0} \cup {CACHE_TTL - 1 + k : k \in 0..ExtraSeconds}

QueryPool == {<<"A">>, <<" ", "a", " ">>}
PlaceIdPool == {<<"X", "1">>, <<"x", "1">>}
AddressPool == {<<>>, <<"B">>, <<"b", " ">>}
WeatherArgPool == {<<1234561, 0, 3>>, <<1234562, 0, 3>>}

ArgsOf(kind) ==
  CASE kind = "search"  -> QueryPool
    [] kind = "details" -> PlaceIdPool
    [] kind = "geocode" -> AddressPool
    [] kind = "weather" -> WeatherArgPool

RedisConfigs == {"unbound", "None", "client"}

\* every invocation so far is of this fetcher
OnlyKind(kind) == \A u \in TaskIds : tasks[u].op \in {"none", kind}

InitFetch ==
  /\ now = 0
  /\ CacheInit
  /\ env = [maps |-> TRUE, weather |-> TRUE]
  /\ redis_client \in RedisConfigs
  /\ redis_store = EmptyDict
  /\ session = NoSession
  /\ clients = <<>>
  /\ tasks = [t \in 1..NFetchCalls |-> IdleTask]
  /\ track = TRUE
  /\ batch = IdleBatch
  /\ calls = NoCalls
  /\ limiter = NoLimiter

NextFetch ==
  \/ \E t \in TaskIds, kind \in {"search", "details", "geocode"}, ok \in BOOLEAN :
       \E arg \in ArgsOf(kind) : OnlyKind(kind) /\ StartFetch(t, kind, arg, ok)
  \/ \E t \in TaskIds, arg \in WeatherArgPool, ok \in BOOLEAN :
       OnlyKind("weather") /\ StartWeather(t, arg, ok)
  \/ \E t \in TaskIds, ok \in BOOLEAN :
       \E payload \in Payloads : Respond(t, "ok", payload, ok)
  \/ FetchTick(FetchInstants)

SpecFetch == InitFetch /\ [][NextFetch]_vars

\* "the same normalized query": equal after lower-casing and trimming
\* (the weather arguments are numbers: equal)
NormEq(kind, a, b) ==
  IF kind = "weather" THEN a = b ELSE Strip(Lower(a)) = Strip(Lower(b))

\* the invocation sent a request and returned a non-empty result
FetchedNonEmpty(t) ==
  /\ tasks[t].pc = "done"
  /\ tasks[t].nreq = 1
  /\ tasks[t].ret.tag = "return"
  /\ Truthy(tasks[t].ret.val)

(***************************************************************************)
(* C1: for every fetcher, when a call has fetched a non-empty result and a *)
(* second call with the same normalized query begins less than CACHE_TTL   *)
(* seconds after it returned, the two calls together sent exactly one      *)
(* request and the second returns what the first returned.                 *)
(***************************************************************************)
C1_Idempotent ==
  \A t1, t2 \in TaskIds :
    ( /\ tasks[t2].pc = "done"
      /\ t1 \in tasks[t2].sawFresh
      /\ FetchedNonEmpty(t1)
      /\ tasks[t1].op = tasks[t2].op
      /\ NormEq(tasks[t1].op, tasks[t1].query, tasks[t2].query) )
    => /\ tasks[t1].nreq + tasks[t2].nreq = 1
       /\ tasks[t2].ret = tasks[t1].ret

(***************************************************************************)
(* C2: when the upstream answers with an empty result set (no places, no   *)
(* geocode results) the fetcher returns None and leaves the cache as it    *)
(* was, and the same call repeated right after it is not answered from     *)
(* that outcome: it sends a request of its own, unless it returns a        *)
(* non-empty result that an earlier call fetched.                          *)
(***************************************************************************)
NotFoundUpstream(t) ==
  /\ tasks[t].pc = "done"
  /\ tasks[t].op \in {"search", "geocode"}
  /\ tasks[t].tries = <<"ok">>
  /\ tasks[t].ret = Returned(None)

C2_Repeat ==
  \A t1, t2 \in TaskIds :
    ( /\ t2 = t1 + 1
      /\ tasks[t2].pc /= "idle"
      /\ t1 \in tasks[t2].sawDone
      /\ NotFoundUpstream(t1)
      /\ tasks[t2].op = tasks[t1].op
      /\ tasks[t2].query = tasks[t1].query )
    => \/ tasks[t2].nreq = 1
       \/ \E u \in tasks[t2].sawDone :
            /\ FetchedNonEmpty(u)
            /\ tasks[t2].pc = "done"
            /\ tasks[t2].ret = tasks[u].ret

C2_NoWrite ==
  \A t \in TaskIds, ok \in BOOLEAN, payload \in {"noplaces", "noresults"} :
    Respond(t, "ok", payload, ok)
      => /\ redis_store' = redis_store
         /\ tasks'[t].ret = Returned(None)

C2_NotFoundNotCached == [](C2_Repeat) /\ [][C2_NoWrite]_vars

\* with a working redis client: a search found nothing, and the same
\* search made right after it is on the wire
C2_Witness ==
  \E t1, t2 \in TaskIds :
    /\ redis_client = "client"
    /\ t2 = t1 + 1
    /\ t1 \in tasks[t2].sawDone
    /\ NotFoundUpstream(t1)
    /\ tasks[t2].op = tasks[t1].op
    /\ tasks[t2].query = tasks[t1].query
    /\ tasks[t2].nreq = 1

(***************************************************************************)
(* SpecRetry: NRetryCalls invocations of one fetcher, or of                *)
(* place_details_async, against an upstream whose requests end in any of   *)
(* the four ways: a 200, a 4xx, a connection error, a timeout.             *)
(***************************************************************************)
NRetryCalls == 1
Statuses == {"ok", "4xx", "conn", "timeout"}
TransientStatuses == {"conn", "timeout"}

InitRetry ==
  /\ now = 0
  /\ CacheInit
  /\ env = [maps |-> TRUE, weather |-> TRUE]
  /\ redis_client \in RedisConfigs
  /\ redis_store = EmptyDict
  /\ session = NoSession
  /\ clients = <<>>
  /\ tasks = [t \in 1..NRetryCalls |-> IdleTask]
  /\ track = FALSE
  /\ batch = IdleBatch
  /\ calls = NoCalls
  /\ limiter = NoLimiter

NextRetry ==
  \/ \E t \in TaskIds, kind \in {"search", "details", "geocode"}, ok \in BOOLEAN :
       \E arg \in ArgsOf(kind) : OnlyKind(kind) /\ StartFetch(t, kind, arg, ok)
  \/ \E t \in TaskIds, arg \in WeatherArgPool, ok \in BOOLEAN :
       OnlyKind("weather") /\ StartWeather(t, arg, ok)
  \/ \E t \in TaskIds, query \in QueryPool, ok \in BOOLEAN :
       OnlyKind("place") /\ StartPlace(t, query, ok)
  \/ \E t \in TaskIds, status \in Statuses, ok \in BOOLEAN :
       \E payload \in Payloads : Respond(t, status, payload, ok)
  \/ \E t \in TaskIds, ok \in BOOLEAN : Retry(t, ok)

SpecRetry == InitRetry /\ [][NextRetry]_vars

\* every request of the fetcher the task is in ended in a transient error
AllTransient(t) ==
  /\ tasks[t].tries /= <<>>
  /\ \A i \in 1..Len(tasks[t].tries) : tasks[t].tries[i] \in TransientStatuses

(***************************************************************************)
(* C4: a fetcher whose every request ends in a transient error (connection *)
(* error or timeout) has sent exactly 3 requests when it ends, and ends by *)
(* raising that error to its caller.                                       *)
(***************************************************************************)
C4_ThreeAttemptsThenRaise ==
  \A t \in TaskIds :
    (tasks[t].pc = "done" /\ tasks[t].op /= "place" /\ AllTransient(t))
      => /\ Len(tasks[t].tries) = STOP_AFTER_ATTEMPT
         /\ tasks[t].ret = Raised(ExceptionOf(tasks[t].tries[Len(tasks[t].tries)]))

(***************************************************************************)
(* C5: a request answered with a 4xx is not repeated: the fetcher sends no *)
(* further request and the error reaches its caller.                       *)
(***************************************************************************)
C5_NoRetryOn4xx ==
  \A t \in TaskIds :
    (tasks[t].tries /= <<>> /\ tasks[t].tries[1] = "4xx")
      => /\ Len(tasks[t].tries) = 1
         /\ tasks[t].pc /= "wait"

(***************************************************************************)
(* SpecGov: NGovCalls concurrent invocations of _places_search_async on    *)
(* the shared client, which either get_session makes (the first caller) or *)
(* init_session made before (start_mcp_server, line 591, and               *)
(* batch_place_details, line 474, call it first).  No redis is configured, *)
(* so every invocation goes to the upstream.                               *)
(***************************************************************************)
NGovCalls == 11
GovQuery == <<"A">>

\* `await init_session()` (lines 560-565)
InitSessionCall ==
  /\ session' = InitSession.session
  /\ clients' = InitSession.clients
  /\ UNCHANGED <<now, env, redis_client, redis_store, tasks>>
  /\ UnchangedCache
  /\ UnchangedBatch

InitGov ==
  /\ now = 0
  /\ CacheInit
  /\ env = [maps |-> TRUE, weather |-> TRUE]
  /\ redis_client = "None"
  /\ redis_store = EmptyDict
  /\ session = NoSession
  /\ clients = <<>>
  /\ tasks = [t \in 1..NGovCalls |-> IdleTask]
  /\ track = FALSE
  /\ batch = IdleBatch
  /\ calls = NoCalls
  /\ limiter = NoLimiter

NextGov ==
  \/ InitSessionCall
  \/ \E t \in TaskIds : StartFetch(t, "search", GovQuery, TRUE)
  \/ \E t \in TaskIds : Send(t)
  \/ \E t \in TaskIds : Respond(t, "ok", "P_id", TRUE)

SpecGov == InitGov /\ [][NextGov]_vars

(***************************************************************************)
(* C3: at most CONCURRENT_REQUESTS requests are on the wire at any time,   *)
(* counted over the whole process and all fetchers.                        *)
(***************************************************************************)
C3_BoundedInFlight == InFlight <= CONCURRENT_REQUESTS

(***************************************************************************)
(* batch_place_details (lines 463-558).  results and the returned dict are *)
(* insertion-ordered: sequences of <<key, value>> pairs.  An entry is a    *)
(* record: error (the message, or None), status ("error" on the entries    *)
(* the batch itself makes), result (the place record, or None) and         *)
(* has_review_texts (the key 'review_texts' is present; its value is []).  *)
(***************************************************************************)
batch_size == 10

OKeys(d) == [j \in 1..Len(d) |-> d[j][1]]
OHas(d, k) == \E j \in 1..Len(d) : d[j][1] = k
OGet(d, k) == d[CHOOSE j \in 1..Len(d) : d[j][1] = k][2]
\* d[k] = v: a key already present keeps its place (x is d, evaluated once)
OPut(d, k, v) ==
  CHOOSE r \in {IF OHas(x, k)
                  THEN [j \in 1..Len(x) |-> IF x[j][1] = k THEN <<k, v>> ELSE x[j]]
                  ELSE Append(x, <<k, v>>) : x \in {d}} : TRUE

\* an entry the batch makes itself (lines 476, 501, 513)
ErrorEntry(msg) ==
  [error |-> msg, status |-> "error", result |-> None, has_review_texts |-> FALSE]

\* {q: {...} for q in queries} (line 476)
RECURSIVE FromKeys(_, _, _)
FromKeys(queries, j, d) ==
  IF j > Len(queries) THEN d
  ELSE FromKeys(queries, j + 1,
                OPut(d, queries[j], ErrorEntry("Failed to initialize session")))

\* lines 479-484: acc is unique_queries, its elements the set seen
RECURSIVE Dedup(_, _, _)
Dedup(queries, j, acc) ==
  IF j > Len(queries) THEN acc
  ELSE Dedup(queries, j + 1,
             IF queries[j] /= <<>> /\ \A k \in 1..Len(acc) : acc[k] /= queries[j]
               THEN Append(acc, queries[j])
               ELSE acc)

\* what place_details_async returned without an "error" key
IsPlace(v) == v = "place"

\* lines 511-540, for one gathered result.  A returned dict goes in as it
\* is; a place record has 'reviews', a list of str (line 392), so sorting
\* it by _parse_time raises AttributeError inside the inner try (or the
\* list is empty), and 'review_texts' becomes [] (lines 531, 534).
Processed(ret) ==
  IF ret.tag = "raise" THEN ErrorEntry(ret.val)
  ELSE IF IsPlace(ret.val)
    THEN [error |-> None, status |-> None, result |-> ret.val,
          has_review_texts |-> TRUE]
    ELSE [error |-> ret.val, status |-> None, result |-> None,
          has_review_texts |-> FALSE]

\* the task numbers of the chunk that starts after unique_queries[i]
Chunk(b) ==
  {t \in 1..Len(b.unique_queries) : b.i < t /\ t <= b.i + batch_size}

\* a gather under which one failed item fails its whole chunk
RECURSIVE ChunkResultsAbort(_, _, _)
ChunkResultsAbort(b, t, d) ==
  IF t \notin Chunk(b) THEN d
  ELSE ChunkResultsAbort(b, t + 1,
         OPut(d, b.unique_queries[t],
              IF \E u \in Chunk(b) : ~IsPlace(tasks[u].ret.val)
                THEN ErrorEntry("Batch processing failed")
                ELSE Processed(tasks[t].ret)))

\* lines 510-540: the results of the chunk's tasks, in the chunk's order
RECURSIVE ChunkResults(_, _, _)
ChunkResults(b, t, d) ==
  IF t \notin Chunk(b) THEN d
  ELSE ChunkResults(b, t + 1,
                    OPut(d, b.unique_queries[t], Processed(tasks[t].ret)))

\* lines 496-501 when create_task (or the call that makes its coroutine)
\* raises for each q of the chunk
RECURSIVE CreateFailures(_, _, _)
CreateFailures(b, t, d) ==
  IF t \notin Chunk(b) THEN d
  ELSE CreateFailures(b, t + 1,
         OPut(d, b.unique_queries[t], ErrorEntry("Failed to create task")))

\* a loop that pauses after every chunk, the last one too
AfterChunkAlwaysPause(b) == [b EXCEPT !.pc = "sleep", !.pauses = @ + 1]

\* lines 547-558: past a chunk, into the pause or to the return
AfterChunk(b) ==
  IF b.i + batch_size < Len(b.unique_queries)
    THEN [b EXCEPT !.pc = "sleep", !.pauses = @ + 1]
    ELSE [b EXCEPT !.pc = "done", !.ret = b.results]

\* unique_queries[i:i + batch_size] (line 492)
Slice(b) ==
  SubSeq(b.unique_queries, b.i + 1,
         IF b.i + batch_size < Len(b.unique_queries) THEN b.i + batch_size
                                                     ELSE Len(b.unique_queries))

\* lines 491-507: the loop body for the chunk at i, up to its suspension
EnterChunk(b) ==
  IF b.i >= Len(b.unique_queries) THEN [b EXCEPT !.pc = "done", !.ret = b.results]
  ELSE LET c == [b EXCEPT !.chunks = Append(@, Slice(b))]
       IN  IF c.created THEN [c EXCEPT !.pc = "gather"]
           ELSE AfterChunk([c EXCEPT !.results = CreateFailures(c, c.i + 1, c.results)])

\* batch_place_details is called and runs to its first suspension.
\* initOk: init_session returned; created: asyncio.create_task(
\* place_details_async(q)) returns a task (it raises when the object that
\* @mcp.tool left under that name is not callable).
BatchCall(queries, initOk, created) ==
  /\ batch.pc = "idle"
  /\ LET b == [batch EXCEPT !.queries = queries, !.initOk = initOk,
                            !.created = created]
         unique == Dedup(queries, 1, <<>>)
     IN  IF queries = <<>>
           THEN /\ batch' = [b EXCEPT !.pc = "done", !.ret = <<>>]
                /\ UNCHANGED <<session, clients, tasks>>
         ELSE IF ~initOk
           THEN /\ batch' = [b EXCEPT !.pc = "done",
                                      !.ret = FromKeys(queries, 1, <<>>)]
                /\ UNCHANGED <<session, clients, tasks>>
         ELSE /\ session' = InitSession.session
              /\ clients' = InitSession.clients
              /\ tasks' = IF created THEN [t \in 1..Len(unique) |-> IdleTask]
                                     ELSE <<>>
              /\ batch' = EnterChunk([b EXCEPT !.unique_queries = unique])
  /\ UNCHANGED <<now, env, redis_client, redis_store>>
  /\ UnchangedCache

\* a loop that makes the tasks of every chunk before it gathers the first
ItemStartEager(t) ==
  /\ batch.pc = "gather"
  /\ StartPlace(t, batch.unique_queries[t], TRUE)

\* a task of the chunk being gathered runs place_details_async(q) to its
\* first suspension; the loop starts the tasks in the order of creation
ItemStart(t) ==
  /\ batch.pc = "gather"
  /\ t \in Chunk(batch)
  /\ StartPlace(t, batch.unique_queries[t], TRUE)

\* `await asyncio.gather(...)` returns: every task of the chunk is done
Gather ==
  /\ batch.pc = "gather"
  /\ \A t \in Chunk(batch) : tasks[t].pc = "done"
  /\ batch' = AfterChunk([batch EXCEPT
                  !.results = ChunkResults(batch, batch.i + 1, batch.results)])
  /\ UNCHANGED <<now, env, redis_client, redis_store, session, clients, tasks>>
  /\ UnchangedCache

\* `await asyncio.sleep(0.5)` returns: the loop goes on to the next chunk
Pause ==
  /\ batch.pc = "sleep"
  /\ batch' = EnterChunk([batch EXCEPT !.i = @ + batch_size])
  /\ UNCHANGED <<now, env, redis_client, redis_store, session, clients, tasks>>
  /\ UnchangedCache

(***************************************************************************)
(* SpecBatch: one call of batch_place_details, with every list of up to    *)
(* MaxQueries queries over BatchPool and with the list of NLong distinct   *)
(* queries, which is longer than a chunk.  The upstream answers a search   *)
(* with a place, with no place or with a connection error, and a details   *)
(* request with the details or a connection error; on the long list every *)
(* answer is a place or its details, but that item FailingItem may be      *)
(* answered with no place.                                                 *)
(***************************************************************************)
MaxQueries == 3
NLong == 11
FailingItem == 5

BatchPool == {<<>>, <<"A">>, <<" ", "a", " ">>}
ShortInputs == UNION {[1..n -> BatchPool] : n \in 0..MaxQueries}
\* query k of the long list: k times "x"
LongInput == [k \in 1..NLong |-> [j \in 1..k |-> "x"]]
BatchInputs == ShortInputs \cup {LongInput}

BatchAnswers ==
  {<<"ok", "P_id">>, <<"ok", "noplaces">>, <<"ok", "D1">>, <<"conn", None>>}

AnswerAllowed(t, a) ==
  \/ Len(batch.queries) <= MaxQueries
  \/ t = FailingItem /\ a = <<"ok", "noplaces">>
  \/ a \in {<<"ok", "P_id">>, <<"ok", "D1">>}

InitBatch ==
  /\ now = 0
  /\ CacheInit
  /\ env \in {[maps |-> m, weather |-> TRUE] : m \in BOOLEAN}
  /\ redis_client \in {"unbound", "None"}
  /\ redis_store = EmptyDict
  /\ session = NoSession
  /\ clients = <<>>
  /\ tasks = <<>>
  /\ track = FALSE
  /\ batch = IdleBatch
  /\ calls = NoCalls
  /\ limiter = NoLimiter

NextBatch ==
  \/ \E queries \in BatchInputs, initOk \in BOOLEAN, created \in BOOLEAN :
       BatchCall(queries, initOk, created)
  \/ \E t \in TaskIds : ItemStart(t)
  \/ \E t \in TaskIds, a \in BatchAnswers :
       AnswerAllowed(t, a) /\ Respond(t, a[1], a[2], TRUE)
  \/ \E t \in TaskIds : Retry(t, TRUE)
  \/ Gather
  \/ Pause

SpecBatch == InitBatch /\ [][NextBatch]_vars

\* the first occurrences, in order, of the classes of eq among the queries
FirstOccurrences(queries, eq(_, _)) ==
  LET IsFirst(j) == \A k \in 1..(j - 1) : ~eq(queries[k], queries[j])
      firsts == SelectSeq([j \in 1..Len(queries) |-> j], IsFirst)
  IN  [n \in 1..Len(firsts) |-> queries[firsts[n]]]

SameNormalized(a, b) == Strip(Lower(a)) = Strip(Lower(b))
SameString(a, b) == a = b

(***************************************************************************)
(* C6: the keys of the mapping batch_place_details returns are the first   *)
(* occurrences, verbatim and in order, of the classes of input queries     *)
(* that are equal after lower-casing and trimming.                         *)
(***************************************************************************)
C6_DedupNormalized ==
  batch.pc = "done" =>
    OKeys(batch.ret) = FirstOccurrences(batch.queries, SameNormalized)

(***************************************************************************)
(* C7: on every exit path the returned mapping has exactly one entry per   *)
(* unique input query (unique as a string), in first-occurrence order.     *)
(***************************************************************************)
C7_OneEntryPerUniqueQuery ==
  batch.pc = "done" =>
    OKeys(batch.ret) = FirstOccurrences(batch.queries, SameString)

\* the chunk (as its first task number less one) that task t is in
ChunkOf(t) == ((t - 1) \div batch_size) * batch_size

(***************************************************************************)
(* C8: when the batch has returned, every item whose own fetch succeeded   *)
(* has its successful result recorded under its query, whatever became of  *)
(* the other items of its chunk, and every item whose fetch failed has an  *)
(* error marker.                                                           *)
(***************************************************************************)
C8_FailureIsolated ==
  (batch.pc = "done" /\ batch.initOk /\ batch.created) =>
    \A t \in TaskIds :
      LET entry == OGet(batch.ret, batch.unique_queries[t])
      IN  /\ OHas(batch.ret, batch.unique_queries[t])
          /\ IsPlace(tasks[t].ret.val) =>
               (entry.result = tasks[t].ret.val /\ entry.error = None)
          /\ ~IsPlace(tasks[t].ret.val) =>
               (entry.error /= None /\ entry.result = None)

\* a finished batch with a failed item and a successful one in one chunk
C8_Witness ==
  /\ batch.pc = "done"
  /\ \E t, u \in TaskIds :
       /\ ChunkOf(t) = ChunkOf(u)
       /\ ~IsPlace(tasks[t].ret.val)
       /\ IsPlace(tasks[u].ret.val)
       /\ OGet(batch.ret, batch.unique_queries[u]).result = "place"

(***************************************************************************)
(* Direct calls of get_cache and set_cache (lines 165-192).  Both return   *)
(* at once on a falsy key; set_cache also on a None value.                 *)
(***************************************************************************)
GetCacheCall(key, ok) ==
  /\ LET got == IF key = <<>> THEN [raised |-> None, value |-> None]
                              ELSE GetCache(key, ok)
     IN  calls' = [calls EXCEPT !.last =
           [op |-> "get_cache", key |-> key, value |-> None, ret |-> got.value,
            raised |-> got.raised, at |-> now,
            w |-> IF key \in DOMAIN calls.puts THEN <<calls.puts[key]>> ELSE <<>>,
            client |-> NoSession, did |-> None, arg |-> <<>>, out |-> <<>>]]
  /\ UNCHANGED <<now, env, redis_client, redis_store, session, clients, tasks,
                 track, batch>>
  /\ UNCHANGED cacheVars
  /\ UNCHANGED limiter

\* puts records the call when it had something to write: backend says
\* whether redis took it
SetCacheCall(key, value, ttl, ok) ==
  /\ redis_store' = IF key = <<>> THEN redis_store
                                  ELSE SetCache(key, value, ttl, ok)
  /\ calls' =
       [last |-> [op |-> "set_cache", key |-> key, value |-> value, ret |-> None,
                  raised |-> IF key /= <<>> /\ SetCacheRaises(value)
                               THEN "NameError" ELSE None,
                  at |-> now, w |-> <<>>, client |-> NoSession, did |-> None,
                  arg |-> <<>>, out |-> <<>>],
        puts |-> IF key /= <<>> /\ value /= None
                   THEN DictSet(calls.puts, key,
                                [value |-> value, at |-> now, ttl |-> ttl,
                                 backend |-> redis_client = "client" /\ ok])
                   ELSE calls.puts]
  /\ UNCHANGED <<now, env, redis_client, session, clients, tasks, track, batch>>
  /\ UNCHANGED cacheVars
  /\ UNCHANGED limiter

(***************************************************************************)
(* SpecHelpers: get_cache and set_cache called directly, and one           *)
(* _places_search_async, in each redis configuration, the redis calls      *)
(* going through or raising.                                               *)
(***************************************************************************)
HelperKeys == {<<>>, SearchKey(<<"A">>), DetailsKey(<<"X", "1">>)}
HelperValues == {None, "P_id", "D1"}

InitHelpers ==
  /\ now = 0
  /\ CacheInit
  /\ env = [maps |-> TRUE, weather |-> TRUE]
  /\ redis_client \in RedisConfigs
  /\ redis_store = EmptyDict
  /\ session = NoSession
  /\ clients = <<>>
  /\ tasks = <<IdleTask>>
  /\ track = FALSE
  /\ batch = IdleBatch
  /\ calls = NoCalls
  /\ limiter = NoLimiter

NextHelpers ==
  \/ \E key \in HelperKeys, ok \in BOOLEAN : GetCacheCall(key, ok)
  \/ \E key \in HelperKeys, value \in HelperValues, ok \in BOOLEAN :
       SetCacheCall(key, value, CACHE_TTL, ok)
  \/ \E t \in TaskIds, ok \in BOOLEAN : StartFetch(t, "search", <<"A">>, ok)
  \/ \E t \in TaskIds, ok \in BOOLEAN : Respond(t, "ok", "P_id", ok)
  \/ FetchTick(FetchInstants)

SpecHelpers == InitHelpers /\ [][NextHelpers]_vars

(***************************************************************************)
(* C12: a value that set_cache was given while the backend was unavailable *)
(* (redis not configured, or the redis call raised) is returned by a       *)
(* get_cache of the same key made within the ttl of that write.            *)
(***************************************************************************)
C12_TwoTierFallback ==
  LET l == calls.last
  IN  ( /\ l.op = "get_cache"
        /\ l.w /= <<>>
        /\ ~l.w[1].backend
        /\ l.at - l.w[1].at < l.w[1].ttl )
      => (l.raised = None /\ l.ret = l.w[1].value)

(***************************************************************************)
(* C13: get_cache and set_cache never raise, whatever the state of the     *)
(* backend, and a fetcher that got nothing from the cache goes on to its   *)
(* upstream request: it never ends by an exception without having sent one.*)
(***************************************************************************)
C13_CacheNeverFatal ==
  /\ calls.last.raised = None
  /\ \A t \in TaskIds :
       (tasks[t].pc = "done" /\ tasks[t].nreq = 0) => tasks[t].ret.tag = "return"

(***************************************************************************)
(* The tool surface.  place_details_async called when get_session has to   *)
(* make the shared client and aiohttp.ClientSession(...) raises (the       *)
(* failure batch_place_details catches around init_session, line 475):     *)
(* line 347 stands before the try block, so the exception leaves the       *)
(* coroutine.                                                              *)
(***************************************************************************)
StartPlaceNoClient(t, query) ==
  /\ IsNext(t)
  /\ env.maps
  /\ query /= <<>>
  /\ ~SessionUsable
  /\ tasks' = [tasks EXCEPT ![t] =
       Done(Begun("place", query), Raised("RuntimeError"))]
  /\ UNCHANGED <<now, env, redis_client, redis_store, session, clients>>
  /\ UnchangedCache
  /\ UnchangedBatch

\* place_details (lines 440-460) returns.  ran: run_until_complete ran the
\* coroutine to its end (task t); otherwise it raised (a loop is already
\* running).  Every exception, the coroutine's included, becomes an error
\* value (lines 458-460).
PlaceDetailsCall(t, ran) ==
  /\ ran => (tasks[t].op = "place" /\ tasks[t].pc = "done")
  /\ calls' = [calls EXCEPT !.last =
       [op |-> "place_details", key |-> <<>>, value |-> None,
        ret |-> IF ran /\ tasks[t].ret.tag = "return"
                  THEN tasks[t].ret.val
                  ELSE "error: Failed to fetch place details",
        raised |-> None, at |-> now, w |-> <<>>, client |-> NoSession,
        did |-> None, arg |-> <<>>, out |-> <<>>]]
  /\ UNCHANGED <<now, env, redis_client, redis_store, session, clients, tasks,
                 track, batch>>
  /\ UNCHANGED cacheVars
  /\ UNCHANGED limiter

(***************************************************************************)
(* SpecTools: one direct call of place_details_async (also through         *)
(* place_details) or of _fetch_weather_summary_async, or one call of       *)
(* batch_place_details on a list of one query (repeated or mixed with      *)
(* empty queries), with either API key present or                          *)
(* missing, in each redis configuration, against an upstream whose         *)
(* requests end in any way.                                                *)
(***************************************************************************)
\* the short lists with at most one query left after deduplication
ToolInputs == {queries \in ShortInputs : Len(Dedup(queries, 1, <<>>)) <= 1}

InitTools ==
  /\ now = 0
  /\ CacheInit
  /\ env \in {[maps |-> m, weather |-> w] : m \in BOOLEAN, w \in BOOLEAN}
  /\ redis_client \in RedisConfigs
  /\ redis_store = EmptyDict
  /\ session = NoSession
  /\ clients = <<>>
  /\ tasks = <<IdleTask>>
  /\ track = FALSE
  /\ batch = IdleBatch
  /\ calls = NoCalls
  /\ limiter = NoLimiter

NextTools ==
  \/ \E t \in TaskIds, query \in BatchPool, ok \in BOOLEAN :
       batch.pc = "idle" /\ StartPlace(t, query, ok)
  \/ \E t \in TaskIds, query \in BatchPool :
       batch.pc = "idle" /\ StartPlaceNoClient(t, query)
  \/ \E t \in TaskIds, ran \in BOOLEAN :
       batch.pc = "idle" /\ PlaceDetailsCall(t, ran)
  \/ \E t \in TaskIds, arg \in WeatherArgPool, ok \in BOOLEAN :
       batch.pc = "idle" /\ StartWeather(t, arg, ok)
  \/ \E queries \in ToolInputs, initOk \in BOOLEAN, created \in BOOLEAN :
       tasks = <<IdleTask>> /\ BatchCall(queries, initOk, created)
  \/ \E t \in TaskIds : ItemStart(t)
  \/ \E t \in TaskIds, status \in Statuses, ok \in BOOLEAN :
       \E payload \in Payloads : Respond(t, status, payload, ok)
  \/ \E t \in TaskIds, ok \in BOOLEAN : Retry(t, ok)
  \/ Gather

SpecTools == InitTools /\ [][NextTools]_vars

\* a value a tool returns: a result or a structured error
IsEntry(e) == (e.error = None) /= (e.result = None)

(***************************************************************************)
(* C14: no exception leaves a tool: place_details_async, place_details and *)
(* batch_place_details each end by returning a result or an error value.   *)
(***************************************************************************)
C14_NoExceptionEscapes ==
  /\ \A t \in TaskIds :
       (tasks[t].op = "place" /\ tasks[t].pc = "done") => tasks[t].ret.tag = "return"
  /\ calls.last.op = "place_details" => calls.last.raised = None
  /\ batch.pc = "done" =>
       \A j \in 1..Len(batch.ret) : IsEntry(batch.ret[j][2])

\* the task began in this step
Began(t) == t \in DOMAIN tasks' /\ tasks[t].pc = "idle" /\ tasks'[t].pc /= "idle"

(***************************************************************************)
(* C15: with its API key missing, place_details_async ends at once with an *)
(* error value and _fetch_weather_summary_async with an empty mapping; the *)
(* call sends no request and makes no HTTP client.                         *)
(***************************************************************************)
C15_NoKeyShortCircuit ==
  [][\A t \in TaskIds :
       ( /\ Began(t)
         /\ \/ tasks'[t].op = "place" /\ ~env.maps
            \/ tasks'[t].op = "weather" /\ ~env.weather )
       => /\ tasks'[t].pc = "done"
          /\ tasks'[t].nreq = 0
          /\ tasks'[t].ret =
               IF tasks'[t].op = "place"
                 THEN Returned("error: GOOGLE_MAPS_API_KEY not configured")
                 ELSE Returned(Empty)
          /\ UNCHANGED <<session, clients>>]_vars

\* a direct place_details_async ended on the missing key, no client exists
C15_Witness ==
  /\ batch.pc = "idle"
  /\ ~env.maps
  /\ clients = <<>>
  /\ \E t \in TaskIds :
       /\ tasks[t].op = "place"
       /\ tasks[t].pc = "done"
       /\ tasks[t].ret = Returned("error: GOOGLE_MAPS_API_KEY not configured")

(***************************************************************************)
(* Cancellation.  The host cancels a task that is suspended in its request *)
(* (waiting for a connection or on the wire) or in the decorator's sleep:  *)
(* CancelledError is raised at the await.  It is no Exception, so neither  *)
(* the except clauses nor the retry predicate see it; on its way out it    *)
(* leaves the `async with session.post(...)` / `session.get(...)` block    *)
(* (lines 215, 250, 276, 313), which gives the connection back.            *)
(***************************************************************************)
\* a cancelled request that keeps its connection
CancelledHolding(tk) == [tk EXCEPT !.ret = Raised("CancelledError")]

Cancelled(tk) == Done(tk, Raised("CancelledError"))

Cancel(t) ==
  /\ tasks[t].pc \in {"send", "http", "wait"}
  /\ tasks[t].ret.tag = "none"
  /\ tasks' = [tasks EXCEPT ![t] = Cancelled(tasks[t])]
  /\ clients' = IF tasks[t].pc = "wait" THEN clients ELSE CloseOwn(tasks[t], clients)
  /\ UNCHANGED <<now, env, redis_client, redis_store, session>>
  /\ UnchangedCache
  /\ UnchangedBatch

(***************************************************************************)
(* SpecCancel: NGovCalls concurrent _places_search_async calls on the      *)
(* client get_session makes, one more than its per-host limit.  The first  *)
(* of them may be cancelled, and may see connection errors (and so reach   *)
(* the decorator's sleep).                                                 *)
(***************************************************************************)
CancelIds == {1}

NextCancel ==
  \/ \E t \in TaskIds : StartFetch(t, "search", GovQuery, TRUE)
  \/ \E t \in TaskIds : Send(t)
  \/ \E t \in TaskIds : Respond(t, "ok", "P_id", TRUE)
  \/ \E t \in TaskIds : t \in CancelIds /\ Respond(t, "conn", None, TRUE)
  \/ \E t \in TaskIds : Retry(t, TRUE)
  \/ \E t \in TaskIds : t \in CancelIds /\ Cancel(t)

SpecCancel == InitGov /\ [][NextCancel]_vars

\* the connections task t holds
Held(t) == IF tasks[t].pc = "http" THEN 1 ELSE 0

(***************************************************************************)
(* C16: cancelling a fetch at a suspension point leaks no capacity: the    *)
(* cancelled task holds no connection afterwards, and the number of calls  *)
(* in flight drops by exactly what the task held.                          *)
(***************************************************************************)
C16_CancelLeaksNothing ==
  /\ [](\A t \in TaskIds : tasks[t].ret = Raised("CancelledError") => Held(t) = 0)
  /\ [][\A t \in TaskIds :
          (tasks[t].ret.tag = "none" /\ tasks'[t].ret = Raised("CancelledError"))
            => InFlight' = InFlight - Held(t)]_vars

\* a request was cancelled on the wire and the pool is full again: the
\* request that had been waiting for a connection got the one given back
C16_Witness ==
  /\ \E t \in TaskIds :
       /\ tasks[t].ret = Raised("CancelledError")
       /\ tasks[t].nreq = 1
       /\ tasks[t].tries = <<>>
  /\ InFlight = CONCURRENT_REQUESTS
  /\ \A u \in TaskIds : tasks[u].pc \in {"http", "done"}

(***************************************************************************)
(* Direct calls of the session helpers (lines 130-149, 560-571).  None of  *)
(* them suspends between its test of the global and its effect:            *)
(* ClientSession.close marks the connector closed before its first await.  *)
(***************************************************************************)
SessionCall(op, client, did, raised) ==
  [op |-> op, key |-> <<>>, value |-> None, ret |-> None, raised |-> raised,
   at |-> now, w |-> <<>>, client |-> client, did |-> did,
   arg |-> <<>>, out |-> <<>>]

GetSessionCall ==
  /\ session' = GetSession.session
  /\ clients' = GetSession.clients
  /\ calls' = [calls EXCEPT !.last =
       SessionCall("get_session", GetSession.session,
                   IF GetSession.clients = clients THEN "reused" ELSE "made", None)]
  /\ UNCHANGED <<now, env, redis_client, redis_store, tasks, track, batch>>
  /\ UNCHANGED cacheVars
  /\ UNCHANGED limiter

\* close_session without its test of the global: None has no .closed
CloseSessionUnguarded ==
  IF session = NoSession
    THEN [clients |-> clients, raised |-> "AttributeError"]
    ELSE [clients |-> [clients EXCEPT ![session].closed = TRUE], raised |-> None]

\* close_session (lines 567-571): the clients afterwards, and what it raised
CloseSession ==
  IF SessionUsable
    THEN [clients |-> [clients EXCEPT ![session].closed = TRUE], raised |-> None]
    ELSE [clients |-> clients, raised |-> None]

CloseSessionCall ==
  /\ clients' = CloseSession.clients
  /\ calls' = [calls EXCEPT !.last =
       SessionCall("close_session", session,
                   IF SessionUsable THEN "closed" ELSE "nothing",
                   CloseSession.raised)]
  /\ UNCHANGED <<now, env, redis_client, redis_store, session, tasks, track, batch>>
  /\ UNCHANGED cacheVars
  /\ UNCHANGED limiter

(***************************************************************************)
(* SpecSession: get_session, init_session and close_session called in any  *)
(* order, interleaved with NSessionCalls invocations of the search         *)
(* fetcher, the weather fetcher and place_details_async.  The upstream     *)
(* answers every request; a request whose client is closed under it ends   *)
(* in a connection error.  At most MaxClients clients are made by direct   *)
(* calls.                                                                  *)
(***************************************************************************)
NSessionCalls == 2
MaxClients == 2

InitSessions ==
  /\ now = 0
  /\ CacheInit
  /\ env = [maps |-> TRUE, weather |-> TRUE]
  /\ redis_client = "None"
  /\ redis_store = EmptyDict
  /\ session = NoSession
  /\ clients = <<>>
  /\ tasks = [t \in 1..NSessionCalls |-> IdleTask]
  /\ track = FALSE
  /\ batch = IdleBatch
  /\ calls = NoCalls
  /\ limiter = NoLimiter

\* a direct call may still make a client
MayMake == SessionUsable \/ Len(clients) < MaxClients

NextSession ==
  \/ MayMake /\ GetSessionCall
  \/ MayMake /\ InitSessionCall
  \/ CloseSessionCall
  \/ \E t \in TaskIds : StartFetch(t, "search", GovQuery, TRUE)
  \/ \E t \in TaskIds, arg \in WeatherArgPool : StartWeather(t, arg, TRUE)
  \/ \E t \in TaskIds : StartPlace(t, GovQuery, TRUE)
  \/ \E t \in TaskIds, payload \in {"P_id", "W1", "D1"} :
       Respond(t, "ok", payload, TRUE)
  \/ \E t \in TaskIds :
       tasks[t].pc = "http" /\ clients[tasks[t].client].closed
         /\ Respond(t, "conn", None, TRUE)
  \/ \E t \in TaskIds : Retry(t, TRUE)

SpecSession == InitSessions /\ [][NextSession]_vars

(***************************************************************************)
(* C17: get_session returns the current shared client whenever one exists  *)
(* and is open, leaving the clients as they are; only when there is none,  *)
(* or it is closed, does it make a new client, which becomes the shared    *)
(* one.  No client exists before the first call that needs one.            *)
(***************************************************************************)
C17_LazySingleClient ==
  [][GetSessionCall =>
       IF SessionUsable
         THEN /\ calls'.last.client = session
              /\ UNCHANGED <<session, clients>>
         ELSE /\ calls'.last.client = Len(clients) + 1
              /\ session' = Len(clients) + 1
              /\ Len(clients') = Len(clients) + 1
              /\ ~clients'[session'].closed
              /\ \A c \in DOMAIN clients : clients'[c] = clients[c]]_vars

\* get_session returned the client it had made after the first was closed
C17_Witness ==
  /\ calls.last.op = "get_session"
  /\ calls.last.did = "reused"
  /\ calls.last.client = session
  /\ Len(clients) >= 2
  /\ clients[1].closed

\* the clients that are open
Live == {c \in DOMAIN clients : ~clients[c].closed}

(***************************************************************************)
(* C18: at most one open HTTP client exists in the process at any time.    *)
(***************************************************************************)
C18_OneLiveClient == Cardinality(Live) <= 1

(***************************************************************************)
(* C19: close_session raises nothing, closes the shared client when there  *)
(* is an open one, touches no other client and leaves the global as it is; *)
(* called with no client or with a closed one it changes nothing.          *)
(***************************************************************************)
C19_CloseIdempotent ==
  [][CloseSessionCall =>
       /\ calls'.last.raised = None
       /\ session' = session
       /\ DOMAIN clients' = DOMAIN clients
       /\ \A c \in DOMAIN clients :
            clients'[c] = IF c = session THEN [clients[c] EXCEPT !.closed = TRUE]
                                         ELSE clients[c]
       /\ ~SessionUsable => clients' = clients]_vars

\* close_session was called on a client that was closed already
C19_Witness ==
  /\ calls.last.op = "close_session"
  /\ calls.last.did = "nothing"
  /\ session /= NoSession
  /\ clients[session].closed

\* the last request the fetcher sent ended in an error
LastFailed(t) ==
  /\ tasks[t].tries /= <<>>
  /\ tasks[t].tries[Len(tasks[t].tries)] /= "ok"

(***************************************************************************)
(* C20: a fetcher whose last request failed ends by raising the error to   *)
(* its caller; it never returns a value, and so never its not-found value  *)
(* (None, or the empty mapping of the weather fetcher).                    *)
(***************************************************************************)
C20_FailureNotNotFound ==
  \A t \in TaskIds :
    (tasks[t].pc = "done" /\ tasks[t].op /= "place" /\ LastFailed(t))
      => /\ tasks[t].ret.tag = "raise"
         /\ tasks[t].ret.val \notin {None, Empty}

(***************************************************************************)
(* rate_limited(calls, period) (lines 100-127).  The closure variables     *)
(* calls_count and last_reset are shared by every caller of the wrapper;   *)
(* the wrapper suspends only in asyncio.sleep and in f itself.  f is       *)
(* recorded when it is invoked.                                            *)
(***************************************************************************)
LimitVars == <<_cache, _expiry, written, lastGet, env, redis_client, redis_store,
               session, clients, tasks, track, batch, calls>>

\* lines 110-112: the counter starts again when the period has passed
AfterReset(l) ==
  IF now - l.last_reset > l.period
    THEN [l EXCEPT !.calls_count = 0, !.last_reset = now]
    ELSE l

\* lines 121-122: count the call and invoke f
Invoke(l, c) ==
  [l EXCEPT !.calls_count = @ + 1,
            !.invoked = Append(@, now),
            !.callers[c] = [pc |-> "done", wake |-> 0]]

\* lines 118-119: after the wait (or when there is nothing to wait for)
\* the counter starts again
Restart(l) == [l EXCEPT !.calls_count = 0, !.last_reset = now]

\* the next caller is the first that has not called yet
IsNextCaller(c) ==
  /\ limiter.callers[c].pc = "idle"
  /\ \A d \in DOMAIN limiter.callers : d < c => limiter.callers[d].pc /= "idle"

\* a caller enters the wrapper and runs to its first suspension
WrapperCall(c) ==
  /\ IsNextCaller(c)
  /\ LET l == AfterReset(limiter)
         sleep_time == l.period - (now - l.last_reset)
     IN  limiter' =
           IF l.calls_count >= l.calls
             THEN IF sleep_time > 0
                    THEN [l EXCEPT !.callers[c] = [pc |-> "sleep", wake |-> now + sleep_time]]
                    ELSE Invoke(Restart(l), c)
             ELSE Invoke(l, c)
  /\ UNCHANGED now
  /\ UNCHANGED LimitVars

\* asyncio.sleep(sleep_time) returns, not before its time
WrapperWake(c) ==
  /\ limiter.callers[c].pc = "sleep"
  /\ now >= limiter.callers[c].wake
  /\ limiter' = Invoke(Restart(limiter), c)
  /\ UNCHANGED now
  /\ UNCHANGED LimitVars

(***************************************************************************)
(* SpecLimit: NLimitCallers callers of one function decorated with         *)
(* rate_limited(calls, period), with calls up to MaxLimitCalls and period  *)
(* up to MaxPeriod seconds, during MaxNowLimit seconds.                    *)
(***************************************************************************)
NLimitCallers == 4
MaxLimitCalls == 2
MaxPeriod == 2
MaxNowLimit == 4

LimitTick ==
  /\ now < MaxNowLimit
  /\ now' = now + 1
  /\ UNCHANGED limiter
  /\ UNCHANGED LimitVars

InitLimit ==
  /\ now = 0
  /\ CacheInit
  /\ env = [maps |-> TRUE, weather |-> TRUE]
  /\ redis_client = "None"
  /\ redis_store = EmptyDict
  /\ session = NoSession
  /\ clients = <<>>
  /\ tasks = <<>>
  /\ track = FALSE
  /\ batch = IdleBatch
  /\ calls = NoCalls
  /\ \E n \in 1..MaxLimitCalls, p \in 1..MaxPeriod :
       limiter = [calls |-> n, period |-> p, calls_count |-> 0, last_reset |-> 0,
                  callers |-> [c \in 1..NLimitCallers |-> [pc |-> "idle", wake |-> 0]],
                  invoked |-> <<>>]

NextLimit ==
  \/ \E c \in DOMAIN limiter.callers : WrapperCall(c)
  \/ \E c \in DOMAIN limiter.callers : WrapperWake(c)
  \/ LimitTick

SpecLimit == InitLimit /\ [][NextLimit]_vars

\* the invocations of f from second s up to, not including, s + period
InWindow(s) ==
  {i \in DOMAIN limiter.invoked :
     s <= limiter.invoked[i] /\ limiter.invoked[i] < s + limiter.period}

(***************************************************************************)
(* C21: the decorated function is invoked at most `calls` times within any *)
(* window of `period` seconds, whatever the number of callers and however  *)
(* the callers that wait for the window to elapse are interleaved.         *)
(***************************************************************************)
C21_AtMostCallsPerWindow ==
  \A s \in 0..MaxNowLimit : Cardinality(InWindow(s)) <= limiter.calls

\* the outcome of task t is in results under its query
Recorded(t) ==
  /\ tasks[t].pc = "done"
  /\ OHas(batch.results, batch.unique_queries[t])

RECURSIVE Concat(_)
Concat(ss) == IF ss = <<>> THEN <<>> ELSE Head(ss) \o Concat(Tail(ss))

(***************************************************************************)
(* C23: the chunks the loop has gone through are consecutive pieces of the *)
(* deduplicated sequence, each of exactly batch_size queries but the last  *)
(* of the call, which has between 1 and batch_size; a pause begins after   *)
(* every chunk that has a successor and only there; when the call returns  *)
(* the chunks make up the whole deduplicated sequence and the pauses are   *)
(* one fewer than the chunks.                                              *)
(***************************************************************************)
C23_ChunksAndPauses ==
  LET n == Len(batch.chunks)
      u == batch.unique_queries
  IN  /\ Concat(batch.chunks) = SubSeq(u, 1, Len(Concat(batch.chunks)))
      /\ \A k \in 1..n :
           /\ Len(batch.chunks[k]) \in 1..batch_size
           /\ (k < n \/ batch.pc = "sleep") => Len(batch.chunks[k]) = batch_size
      /\ batch.pauses = IF batch.pc = "sleep" THEN n
                        ELSE IF n = 0 THEN 0 ELSE n - 1
      /\ (batch.pc = "done" /\ batch.initOk /\ batch.queries /= <<>>)
           => Concat(batch.chunks) = u

\* a call over more than one chunk has returned
C23_Witness ==
  /\ batch.pc = "done"
  /\ Len(batch.chunks) = 2
  /\ Len(batch.chunks[2]) < batch_size
  /\ batch.pauses = 1

(***************************************************************************)
(* C24: every client that get_session returns has a total timeout of 30 s, *)
(* a connect timeout of 10 s and a per-host connection limit of            *)
(* CONCURRENT_REQUESTS, in whatever order get_session, init_session and    *)
(* close_session are called.                                               *)
(***************************************************************************)
C24_ReturnedClientConfigured ==
  calls.last.op = "get_session" =>
    /\ clients[calls.last.client].total = 30
    /\ clients[calls.last.client].connect = 10
    /\ clients[calls.last.client].limit_per_host = CONCURRENT_REQUESTS

\* the part of a resource name after its last "/" (nothing without a "/")
TrailingSegment(str) ==
  LET slashes == {j \in 1..Len(str) : str[j] = "/"}
  IN  IF slashes = {} THEN <<>>
      ELSE SubSeq(str, 1 + CHOOSE j \in slashes : \A k \in slashes : k <= j, Len(str))

\* the identifier of a search result: its id field, else the trailing
\* segment of its resource name
ResolvedId(found) ==
  IF FoundId(found) /= <<>> THEN FoundId(found) ELSE TrailingSegment(FoundName(found))

Take(s, n) == SubSeq(s, 1, IF n < Len(s) THEN n ELSE Len(s))

\* place_details_async, lines 388-392: the first three of the upstream
\* list, in its order; those with a text give their stripped text
RECURSIVE StrippedTexts(_)
StrippedTexts(revs) ==
  IF revs = <<>> THEN <<>>
  ELSE (IF Head(revs).text /= <<>> THEN <<Strip(Head(revs).text)>> ELSE <<>>)
         \o StrippedTexts(Tail(revs))

PlaceReviews(reviews) == StrippedTexts(Take(reviews, 3))

\* batch_place_details, lines 527-534, on result['reviews'], which is the
\* list of str that PlaceReviews made: _parse_time calls rv.get on a str,
\* the AttributeError is caught and review_texts is []; so it is for the
\* empty list
BatchReviewTexts(texts) == <<>>

ReviewCall(op, reviews, out) ==
  /\ calls.last.op = "none"
  /\ calls' = [calls EXCEPT !.last =
       [NoCalls.last EXCEPT !.op = op, !.at = now, !.arg = reviews, !.out = out]]
  /\ UNCHANGED <<now, env, redis_client, redis_store, session, clients, tasks,
                 track, batch, limiter>>
  /\ UNCHANGED cacheVars

\* place_details_async reaches line 388 with details['reviews'] = reviews
PlaceReviewsCall(reviews) ==
  ReviewCall("place_details_async", reviews, PlaceReviews(reviews))

\* batch_place_details reaches line 527 for a place whose details had them
BatchReviewsCall(reviews) ==
  ReviewCall("batch_place_details", reviews, BatchReviewTexts(PlaceReviews(reviews)))

(***************************************************************************)
(* SpecReviews: one lookup of the review texts, for every upstream list of *)
(* up to MaxReviews reviews, published at seconds 1..MaxPublish, each with *)
(* one of the texts of ReviewTexts.                                        *)
(***************************************************************************)
MaxReviews == 4
MaxPublish == 3
ReviewTexts == {<<"a">>, <<" ", "b">>}

ReviewPool == [publishTime : 1..MaxPublish, text : ReviewTexts]
ReviewLists == UNION {[1..n -> ReviewPool] : n \in 0..MaxReviews}

InitReviews ==
  /\ now = 0
  /\ CacheInit
  /\ env = [maps |-> TRUE, weather |-> TRUE]
  /\ redis_client = "None"
  /\ redis_store = EmptyDict
  /\ session = NoSession
  /\ clients = <<>>
  /\ tasks = <<>>
  /\ track = FALSE
  /\ batch = IdleBatch
  /\ calls = NoCalls
  /\ limiter = NoLimiter

NextReviews ==
  \/ \E reviews \in ReviewLists : PlaceReviewsCall(reviews)
  \/ \E reviews \in ReviewLists : BatchReviewsCall(reviews)

SpecReviews == InitReviews /\ [][NextReviews]_vars

\* out lists the texts of the cap most recently published of reviews, the
\* latest first: pick says which review each text is of
MostRecent(reviews, cap, out) ==
  /\ Len(out) = (IF cap < Len(reviews) THEN cap ELSE Len(reviews))
  /\ \E pick \in [1..Len(out) -> DOMAIN reviews] :
       /\ \A j, k \in 1..Len(out) : j /= k => pick[j] /= pick[k]
       /\ \A k \in 1..Len(out) : out[k] = Strip(reviews[pick[k]].text)
       /\ \A j, k \in 1..Len(out) :
            j < k => reviews[pick[j]].publishTime >= reviews[pick[k]].publishTime
       /\ \A k \in 1..Len(out), r \in DOMAIN reviews :
            (\A j \in 1..Len(out) : pick[j] /= r)
              => reviews[r].publishTime <= reviews[pick[k]].publishTime

(***************************************************************************)
(* C26: the review texts surfaced for a place are the texts of the most    *)
(* recently published reviews, latest first: at most 3 by                  *)
(* place_details_async, at most 2 as review_texts by batch_place_details.  *)
(***************************************************************************)
C26_LatestReviews ==
  /\ calls.last.op = "place_details_async"
       => MostRecent(calls.last.arg, 3, calls.last.out)
  /\ calls.last.op = "batch_place_details"
       => MostRecent(calls.last.arg, 2, calls.last.out)

(***************************************************************************)
(* C27: every wait of the retry decorator lies between the floor WAIT_MIN  *)
(* and the ceiling WAIT_MAX, and the waits grow: the wait before the third *)
(* attempt is strictly longer than the wait before the second.             *)
(***************************************************************************)
C27_BackoffGrows ==
  \A t \in TaskIds :
    /\ \A k \in 1..Len(tasks[t].waits) :
         WAIT_MIN <= tasks[t].waits[k] /\ tasks[t].waits[k] <= WAIT_MAX
    /\ Len(tasks[t].waits) >= 2 => tasks[t].waits[2] > tasks[t].waits[1]

(***************************************************************************)
(* C28: every key of SimpleCache that has an expiry time has a value: the  *)
(* keys of _expiry are among the keys of _cache, after any sequence of get *)
(* and set calls made by any tasks.                                        *)
(***************************************************************************)
C28_ExpiryHasValue == DOMAIN _expiry \subseteq DOMAIN _cache

\* after an eviction one key is held with an expiry and one without
C28_Witness ==
  /\ lastGet.expired
  /\ DOMAIN _expiry /= {}
  /\ DOMAIN _cache \ DOMAIN _expiry /= {}

(***************************************************************************)
(* C29: no invocation calls post or get on a closed client: whenever a     *)
(* fetcher issues a request, the client it issues it on is open, however   *)
(* close_session is interleaved with the invocations in flight.            *)
(***************************************************************************)
C29_NoRequestOnClosed == \A t \in TaskIds : ~tasks[t].onClosed

(***************************************************************************)
(* SpecLive: one call of batch_place_details as in SpecBatch, where the    *)
(* upstream answers the requests of the long list in the order they were   *)
(* sent, under the scheduling of the event loop and the proviso that every *)
(* request completes or fails: a coroutine that can take a step takes it   *)
(* (weak fairness of LoopStep), a request on the wire is answered (weak    *)
(* fairness of Answer).  Nothing obliges a caller to call.                 *)
(***************************************************************************)
InOrder(t) ==
  \/ Len(batch.queries) <= MaxQueries
  \/ \A u \in TaskIds : u < t => tasks[u].pc /= "http"

NextLive ==
  \/ \E queries \in BatchInputs, initOk \in BOOLEAN, created \in BOOLEAN :
       BatchCall(queries, initOk, created)
  \/ \E t \in TaskIds : ItemStart(t)
  \/ \E t \in TaskIds, a \in BatchAnswers :
       AnswerAllowed(t, a) /\ InOrder(t) /\ Respond(t, a[1], a[2], TRUE)
  \/ \E t \in TaskIds : Retry(t, TRUE)
  \/ Gather
  \/ Pause

\* the steps of the event loop, and the answer to a request on the wire
LoopStep ==
  \/ \E t \in TaskIds : ItemStart(t)
  \/ \E t \in TaskIds : Retry(t, TRUE)
  \/ Gather
  \/ Pause

Answer ==
  \E t \in TaskIds, a \in BatchAnswers :
    AnswerAllowed(t, a) /\ InOrder(t) /\ Respond(t, a[1], a[2], TRUE)

SpecLive ==
  InitBatch /\ [][NextLive]_vars /\ WF_vars(LoopStep) /\ WF_vars(Answer)

\* place_details_async invocation t has been called and has not returned
Running(t) == t \in DOMAIN tasks /\ tasks[t].pc \notin {"idle", "done"}
Finished(t) == t \in DOMAIN tasks /\ tasks[t].pc = "done"

(***************************************************************************)
(* C30: a place_details_async invocation sends at most STOP_AFTER_ATTEMPT  *)
(* requests per fetcher, so at most 6 in all, and every invocation that    *)
(* has been called eventually returns; batch_place_details, once called,   *)
(* eventually returns.                                                     *)
(***************************************************************************)
C30_Terminates ==
  /\ [](\A t \in TaskIds :
          /\ Len(tasks[t].tries) <= STOP_AFTER_ATTEMPT
          /\ tasks[t].nreq <= 2 * STOP_AFTER_ATTEMPT)
  /\ (\E t \in TaskIds : Running(t)) ~> (\A t \in TaskIds : Finished(t))
  /\ (batch.pc /= "idle") ~> (batch.pc = "done")

\* the call has returned and one of its invocations sent six requests
C30_Witness ==
  /\ batch.pc = "done"
  /\ \E t \in TaskIds : tasks[t].pc = "done" /\ tasks[t].nreq = 2 * STOP_AFTER_ATTEMPT

=============================================================================
